---------------------------- MODULE Spec2Model ----------------------------
(***************************************************************************)
(* A model of the scanner of src/src/scan.rs: Tokens, an iterator of Token *)
(* over a Peekable<CharIndices> of the source text.                        *)
(*                                                                         *)
(* A character is a one-character string; the two characters outside ASCII *)
(* are written by code point ("U+00E9" is e-acute, "U+00B2" is superscript *)
(* two).  A source is a sequence of characters.  Token positions are byte  *)
(* offsets, as CharIndices yields them.                                    *)
(***************************************************************************)
EXTENDS Naturals, Sequences, FiniteSets, TLC

VARIABLES
    source,        \* the text given to tokenize; borrowed, never written
    char_indices,  \* Tokens.char_indices: the Peekable<CharIndices> cursor
    results,       \* what each next() call so far has returned, in order
    consumed,      \* after each next() call, how many characters are behind the cursor
    other,         \* a second scan, when there is one: its source, cursor and results
    instructions   \* parse(tokens).collect(), when it runs: where it is, what it holds

vars == <<source, char_indices, results, consumed, other, instructions>>

---------------------------------------------------------------------------
(* Bounds of the model. *)

\* A source is made of at most MaxPieces pieces (words and single characters).
MaxPieces == 2
\* ... or of at most MaxChars characters of the core alphabet.
MaxChars == 4
\* next() is called at most MaxNone times after it first returned None.
MaxNone == 1
\* Two scans side by side have sources of at most MaxPairChars characters.
MaxPairChars == 2

---------------------------------------------------------------------------
(* Characters and their classes (char::is_whitespace, is_numeric,          *)
(* is_alphabetic, is_alphanumeric), restricted to the model's alphabet.    *)

Punctuation == {"(", ")", "{", "}", ",", ".", ";", "+", "-", "*", "/"}

Comparison == {"=", ">", "<", "!"}

Letters ==
    {"a", "b", "c", "d", "e", "f", "h", "i", "l", "n", "o", "p", "r", "s", "t",
     "u", "v", "w", "y", "U+00E9"}

Digits == {"1", "2", "3", "4", "5", "U+00B2"}

Blank == {" ", "\t", "\n", "\r", "\f"}

Unrecognized == {"%", "#", "\\"}

Char == Punctuation \cup Comparison \cup Letters \cup Digits \cup Blank
            \cup Unrecognized \cup {"\""}

\* Mutant: the space is the only whitespace.
is_whitespace_SpaceOnly(c) == c = " "

is_whitespace(c) == c \in Blank

is_numeric(c) == c \in Digits

is_alphabetic(c) == c \in Letters

is_alphanumeric(c) == is_alphabetic(c) \/ is_numeric(c)

\* The sets of characters the scanner's next_if predicates accept.
Numeric == {c \in Char : is_numeric(c)}

Alphanumeric == {c \in Char : is_alphanumeric(c)}

\* char::len_utf8: the bytes a character takes in the source buffer.
len_utf8(c) == IF c \in {"U+00E9", "U+00B2"} THEN 2 ELSE 1

\* The byte offset of the k-th character of src (k = Len(src) + 1: its length).
RECURSIVE ByteOffset(_, _)
ByteOffset(src, k) ==
    IF k <= 1 THEN 0 ELSE ByteOffset(src, k - 1) + len_utf8(src[k - 1])

---------------------------------------------------------------------------
(* Option<T>: None is the empty sequence, Some(x) the sequence of x.       *)

None == <<>>

Some(x) == <<x>>

---------------------------------------------------------------------------
(* The cursor.  it.iter is the index of the character the CharIndices will *)
(* yield next (Len(src) + 1 once it is exhausted); it.peeked is Peekable's *)
(* Option<Option<(usize, char)>>.  Every operation returns the cursor it   *)
(* leaves (it) and its value (ret).                                        *)

\* source.char_indices().peekable()
peekable == [iter |-> 1, peeked |-> None]

\* Mutant: an iterator that is not fused and starts over after its None.
CharIndicesNext_NotFused(src, it) ==
    IF it.iter <= Len(src)
    THEN [it  |-> [it EXCEPT !.iter = @ + 1],
          ret |-> Some([i |-> ByteOffset(src, it.iter), c |-> src[it.iter]])]
    ELSE [it |-> [it EXCEPT !.iter = 1], ret |-> None]

\* CharIndices::next; it is fused, so None repeats.
CharIndicesNext(src, it) ==
    IF it.iter <= Len(src)
    THEN [it  |-> [it EXCEPT !.iter = @ + 1],
          ret |-> Some([i |-> ByteOffset(src, it.iter), c |-> src[it.iter]])]
    ELSE [it |-> it, ret |-> None]

\* Peekable::next: the peeked item if there is one, else the iterator's.
PeekableNext(src, it) ==
    IF it.peeked # None
    THEN [it |-> [it EXCEPT !.peeked = None], ret |-> it.peeked[1]]
    ELSE CharIndicesNext(src, it)

\* Peekable::peek: fills the one-item buffer and shows it.
peek(src, it) ==
    IF it.peeked # None
    THEN [it |-> it, ret |-> it.peeked[1]]
    ELSE LET r == CharIndicesNext(src, it)
         IN  [it |-> [r.it EXCEPT !.peeked = Some(r.ret)], ret |-> r.ret]

\* The match of Peekable::next_if on r, what self.next() gave: the item if
\* the predicate accepts it, else it is put back into the buffer.
PutBackUnless(r, accepted) ==
    IF r.ret # None /\ r.ret[1].c \in accepted
    THEN r
    ELSE [it |-> [r.it EXCEPT !.peeked = Some(r.ret)], ret |-> None]

\* Peekable::next_if with a predicate on the character, given as the set of
\* characters it accepts.
next_if(src, it, accepted) == PutBackUnless(PeekableNext(src, it), accepted)

\* How many characters of src are behind the cursor.
Consumed(it) ==
    IF it.peeked # None /\ it.peeked[1] # None THEN it.iter - 2 ELSE it.iter - 1

---------------------------------------------------------------------------
(* Tokens: the scanner's helpers.                                          *)

\* Tokens::next_matches: consumes the next character iff it is `expected`.
next_matches(src, it, expected) ==
    LET r == next_if(src, it, {expected})
    IN  [it |-> r.it, ret |-> r.ret # None]

\* Mutant: a backslash takes the character after it along, as an escape.
RECURSIVE next_until_eq_Escapes(_, _, _)
next_until_eq_Escapes(src, it, expected) ==
    LET r == next_if(src, it, Char \ {expected})
    IN  IF r.ret = None THEN r.it
        ELSE IF r.ret[1].c = "\\"
        THEN next_until_eq_Escapes(src, PeekableNext(src, r.it).it, expected)
        ELSE next_until_eq_Escapes(src, r.it, expected)

\* Tokens::next_until_eq: consumes up to, not including, `expected`.
RECURSIVE next_until_eq(_, _, _)
next_until_eq(src, it, expected) ==
    LET r == next_if(src, it, Char \ {expected})
    IN  IF r.ret # None THEN next_until_eq(src, r.it, expected) ELSE r.it

\* Tokens::identifier: consumes the alphanumeric run at the cursor.
RECURSIVE identifier(_, _)
identifier(src, it) ==
    LET r == next_if(src, it, Alphanumeric)
    IN  IF r.ret # None
        THEN identifier(src, r.it)
        ELSE [it |-> r.it, ret |-> "Identifier"]

\* Mutant: a number is its first digit alone.
number_OneDigit(src, it) ==
    [it |-> it, ret |-> "Number"]

\* Mutant: a number runs on through the letters that follow its digits.
RECURSIVE number_Alphanumeric(_, _)
number_Alphanumeric(src, it) ==
    LET r == next_if(src, it, Alphanumeric)
    IN  IF r.ret # None
        THEN number_Alphanumeric(src, r.it)
        ELSE [it |-> r.it, ret |-> "Number"]

\* Tokens::number: consumes the numeric run at the cursor.
RECURSIVE number(_, _)
number(src, it) ==
    LET r == next_if(src, it, Numeric)
    IN  IF r.ret # None
        THEN number(src, r.it)
        ELSE [it |-> r.it, ret |-> "Number"]

\* Mutant: the end of input closes a string as a quote does.
string_ClosedByEnd(src, it) ==
    [it |-> PeekableNext(src, next_until_eq(src, it, "\"")).it, ret |-> "String"]

\* Tokens::string: up to the closing quote and the quote itself, or to the end.
string(src, it) ==
    LET r == PeekableNext(src, next_until_eq(src, it, "\""))
    IN  IF r.ret # None /\ r.ret[1].c = "\""
        THEN [it |-> r.it, ret |-> "String"]
        ELSE [it |-> r.it, ret |-> "Error"]

\* Mutant: the comment takes the end of the line with it.
comment_TakesNewline(src, it) ==
    [it  |-> PeekableNext(src, next_until_eq(src, it, "\n")).it,
     ret |-> "Comment"]

\* Tokens::comment: up to, not including, the end of the line.
comment(src, it) ==
    [it |-> next_until_eq(src, it, "\n"), ret |-> "Comment"]

\* keyword.chars().find(|&expected| !self.next_matches(expected)).is_none():
\* consumes the characters of keyword[k..] one by one while they match.
RECURSIVE StartsWithKeyword(_, _, _, _)
StartsWithKeyword(src, it, keyword, k) ==
    IF k > Len(keyword)
    THEN [it |-> it, ret |-> TRUE]
    ELSE LET r == next_matches(src, it, keyword[k])
         IN  IF r.ret
             THEN StartsWithKeyword(src, r.it, keyword, k + 1)
             ELSE [it |-> r.it, ret |-> FALSE]

\* Mutant: the keyword is taken without looking at what follows it.
try_keyword_NoBoundary(src, it, keyword, keyword_kind) ==
    LET m == StartsWithKeyword(src, it, keyword, 1)
    IN  IF m.ret THEN [it |-> m.it, ret |-> keyword_kind] ELSE identifier(src, m.it)

\* Mutant: a word that is no keyword is left where the match stopped.
try_keyword_NoRest(src, it, keyword, keyword_kind) ==
    LET m == StartsWithKeyword(src, it, keyword, 1)
        p == peek(src, m.it)
    IN  IF m.ret /\ ~(p.ret # None /\ is_alphanumeric(p.ret[1].c))
        THEN [it |-> p.it, ret |-> keyword_kind]
        ELSE [it |-> p.it, ret |-> "Identifier"]

\* Tokens::try_keyword: `keyword` is the keyword's text after its first letter.
try_keyword(src, it, keyword, keyword_kind) ==
    LET m == StartsWithKeyword(src, it, keyword, 1)
        identifier_starts_with_keyword == m.ret
        p == peek(src, m.it)
        keyword_is_not_prefix_of_identifier ==
            ~(p.ret # None /\ is_alphanumeric(p.ret[1].c))
    IN  IF identifier_starts_with_keyword /\ keyword_is_not_prefix_of_identifier
        THEN [it |-> p.it, ret |-> keyword_kind]
        ELSE identifier(src, p.it)

\* The character a peek shows, or "" at the end of input.
PeekChar(src, it) ==
    LET p == peek(src, it) IN IF p.ret = None THEN "" ELSE p.ret[1].c

\* The arms of the match of Tokens::identifier_or_keyword on `current` and,
\* for f and t, on the peeked character: the keyword to try, as the text after
\* its first letter with its kind, or None for the arms that call identifier().
KeywordArm(current, peeked) ==
    CASE current = "a" -> Some([keyword |-> <<"n", "d">>, kind |-> "And"])
      [] current = "c" -> Some([keyword |-> <<"l", "a", "s", "s">>, kind |-> "Class"])
      [] current = "e" -> Some([keyword |-> <<"l", "s", "e">>, kind |-> "Else"])
      [] current = "f" /\ peeked = "a" ->
            Some([keyword |-> <<"a", "l", "s", "e">>, kind |-> "False"])
      [] current = "f" /\ peeked = "o" ->
            Some([keyword |-> <<"o", "r">>, kind |-> "For"])
      [] current = "f" /\ peeked = "u" ->
            Some([keyword |-> <<"u", "n", "c", "t", "i", "o", "n">>,
                  kind |-> "Function"])
      [] current = "i" -> Some([keyword |-> <<"f">>, kind |-> "If"])
      [] current = "n" -> Some([keyword |-> <<"i", "l">>, kind |-> "Nil"])
      [] current = "o" -> Some([keyword |-> <<"r">>, kind |-> "Or"])
      [] current = "p" -> Some([keyword |-> <<"r", "i", "n", "t">>, kind |-> "Print"])
      [] current = "r" ->
            Some([keyword |-> <<"e", "t", "u", "r", "n">>, kind |-> "Return"])
      [] current = "s" -> Some([keyword |-> <<"u", "p", "e", "r">>, kind |-> "Super"])
      [] current = "t" /\ peeked = "h" ->
            Some([keyword |-> <<"h", "i", "s">>, kind |-> "This"])
      [] current = "t" /\ peeked = "r" ->
            Some([keyword |-> <<"r", "u", "e">>, kind |-> "True"])
      [] current = "v" -> Some([keyword |-> <<"a", "r">>, kind |-> "Var"])
      [] current = "w" -> Some([keyword |-> <<"h", "i", "l", "e">>, kind |-> "While"])
      [] OTHER -> None

\* The body of the arm chosen: try_keyword(..) or identifier().
RunArm(src, it, arm) ==
    IF arm = None
    THEN identifier(src, it)
    ELSE try_keyword(src, it, arm[1].keyword, arm[1].kind)

\* Mutant: the arms of f and t match on the first letter again, not on the
\* peeked one.
identifier_or_keyword_NoLookahead(src, it, current) ==
    IF current \in {"f", "t"}
    THEN RunArm(src, peek(src, it).it, KeywordArm(current, current))
    ELSE RunArm(src, it, KeywordArm(current, ""))

\* Tokens::identifier_or_keyword: only the arms of f and t peek.
identifier_or_keyword(src, it, current) ==
    IF current \in {"f", "t"}
    THEN RunArm(src, peek(src, it).it, KeywordArm(current, PeekChar(src, it)))
    ELSE RunArm(src, it, KeywordArm(current, ""))

\* Mutant: a run of unrecognized characters is one Error token.
RECURSIVE unrecognized_Batch(_, _)
unrecognized_Batch(src, it) ==
    LET r == next_if(src, it, Unrecognized)
    IN  IF r.ret # None
        THEN unrecognized_Batch(src, r.it)
        ELSE [it |-> r.it, ret |-> "Error"]

\* The arm `_ => Error` of Tokens::kind: the character alone is the token.
unrecognized(src, it) == [it |-> it, ret |-> "Error"]

\* Mutant: the operator is taken without looking at the next character.
Doubled_NoLookahead(src, it, doubled, single) == [it |-> it, ret |-> single]

\* The arm `c if self.next_matches('=') => doubled, c => single` of Tokens::kind.
Doubled(src, it, doubled, single) ==
    LET m == next_matches(src, it, "=")
    IN  [it |-> m.it, ret |-> IF m.ret THEN doubled ELSE single]

\* Tokens::kind: classifies the token that starts with the character `next`,
\* which is already consumed.
kind(src, it, next) ==
    CASE next = "(" -> [it |-> it, ret |-> "LeftParen"]
      [] next = ")" -> [it |-> it, ret |-> "RightParen"]
      [] next = "{" -> [it |-> it, ret |-> "LeftBrace"]
      [] next = "}" -> [it |-> it, ret |-> "RightBrace"]
      [] next = "," -> [it |-> it, ret |-> "Comma"]
      [] next = "." -> [it |-> it, ret |-> "Dot"]
      [] next = ";" -> [it |-> it, ret |-> "Semicolon"]
      [] next = "+" -> [it |-> it, ret |-> "Plus"]
      [] next = "-" -> [it |-> it, ret |-> "Minus"]
      [] next = "*" -> [it |-> it, ret |-> "Star"]
      [] next = "/" ->
            LET m == next_matches(src, it, "/")
            IN  IF m.ret THEN comment(src, m.it)
                         ELSE [it |-> m.it, ret |-> "Slash"]
      [] next = "=" -> Doubled(src, it, "EqualEqual", "Equal")
      [] next = ">" -> Doubled(src, it, "GreaterEqual", "Greater")
      [] next = "<" -> Doubled(src, it, "LessEqual", "Less")
      [] next = "!" -> Doubled(src, it, "BangEqual", "Bang")
      [] next = "\"" -> string(src, it)
      [] OTHER ->
            IF is_numeric(next) THEN number(src, it)
            ELSE IF is_alphabetic(next) THEN identifier_or_keyword(src, it, next)
            ELSE unrecognized(src, it)

\* Token::new
Token(position, k) == [position |-> position, kind |-> k]

\* Mutant: the first character of the token is looked at and left in place.
RECURSIVE FindNonWhitespace_Peek(_, _)
FindNonWhitespace_Peek(src, it) ==
    LET p == peek(src, it)
    IN  IF p.ret = None \/ ~is_whitespace(p.ret[1].c)
        THEN p
        ELSE FindNonWhitespace_Peek(src, PeekableNext(src, p.it).it)

\* Mutant: the search reads the underlying iterator and so loses the
\* character held in the lookahead.
RECURSIVE FindNonWhitespace_DropPeeked(_, _)
FindNonWhitespace_DropPeeked(src, it) ==
    LET r == PeekableNext(src, [it EXCEPT !.peeked = None])
    IN  IF r.ret = None \/ ~is_whitespace(r.ret[1].c)
        THEN r
        ELSE FindNonWhitespace_DropPeeked(src, r.it)

\* char_indices.find(|(_, c)| !c.is_whitespace())
RECURSIVE FindNonWhitespace(_, _)
FindNonWhitespace(src, it) ==
    LET r == PeekableNext(src, it)
    IN  IF r.ret = None \/ ~is_whitespace(r.ret[1].c)
        THEN r
        ELSE FindNonWhitespace(src, r.it)

\* The byte offset at which the line of the k-th character of src starts
\* (for the mutant that follows).
RECURSIVE LineStart(_, _)
LineStart(src, k) ==
    IF k <= 1 THEN 0
    ELSE IF src[k - 1] = "\n" THEN ByteOffset(src, k)
    ELSE LineStart(src, k - 1)

\* Mutant: the position is the token's column, counted from the start of its line.
TokensNext_Column(src, it) ==
    LET f == FindNonWhitespace(src, it)
    IN  IF f.ret = None
        THEN [it |-> f.it, ret |-> None]
        ELSE LET k == kind(src, f.it, f.ret[1].c)
                 col == f.ret[1].i - LineStart(src, Consumed(f.it))
             IN  [it |-> k.it, ret |-> Some(Token(col, k.ret))]

\* Mutant: the position is taken after the token was scanned, at its last
\* character, not at its first.
TokensNext_EndPosition(src, it) ==
    LET f == FindNonWhitespace(src, it)
    IN  IF f.ret = None
        THEN [it |-> f.it, ret |-> None]
        ELSE LET k == kind(src, f.it, f.ret[1].c)
             IN  [it  |-> k.it,
                  ret |-> Some(Token(ByteOffset(src, Consumed(k.it)), k.ret))]

\* Mutant: the token is positioned where the cursor stood when next() was
\* called, before the whitespace was skipped.
TokensNext_CursorPosition(src, it) ==
    LET f == FindNonWhitespace(src, it)
    IN  IF f.ret = None
        THEN [it |-> f.it, ret |-> None]
        ELSE LET k == kind(src, f.it, f.ret[1].c)
             IN  [it  |-> k.it,
                  ret |-> Some(Token(ByteOffset(src, Consumed(it) + 1), k.ret))]

\* <Tokens as Iterator>::next: the cursor it leaves and the Option<Token>.
TokensNext(src, it) ==
    LET f == FindNonWhitespace(src, it)
    IN  IF f.ret = None
        THEN [it |-> f.it, ret |-> None]
        ELSE LET k == kind(src, f.it, f.ret[1].c)
             IN  [it |-> k.it, ret |-> Some(Token(f.ret[1].i, k.ret))]

\* The tokens a scan returns from cursor `it` on, until next() returns None.
RECURSIVE Collect(_, _)
Collect(src, it) ==
    LET r == TokensNext(src, it)
    IN  IF r.ret = None THEN <<>> ELSE <<r.ret[1]>> \o Collect(src, r.it)

\* tokenize(source), run to exhaustion.
tokenize(src) == Collect(src, peekable)

---------------------------------------------------------------------------
(* The sources the model scans.                                            *)

\* The sixteen keywords and their texts (Display for KeywordKind).
KeywordKinds ==
    {"And", "Or", "True", "False", "If", "Else", "For", "While",
     "Class", "Nil", "Super", "This", "Var", "Function", "Print", "Return"}

KeywordText ==
    [k \in KeywordKinds |->
        CASE k = "And"       -> <<"a", "n", "d">>
          [] k = "Or"        -> <<"o", "r">>
          [] k = "True"      -> <<"t", "r", "u", "e">>
          [] k = "False"     -> <<"f", "a", "l", "s", "e">>
          [] k = "If"        -> <<"i", "f">>
          [] k = "Else"      -> <<"e", "l", "s", "e">>
          [] k = "For"       -> <<"f", "o", "r">>
          [] k = "While"     -> <<"w", "h", "i", "l", "e">>
          [] k = "Class"     -> <<"c", "l", "a", "s", "s">>
          [] k = "Nil"       -> <<"n", "i", "l">>
          [] k = "Super"     -> <<"s", "u", "p", "e", "r">>
          [] k = "This"      -> <<"t", "h", "i", "s">>
          [] k = "Var"       -> <<"v", "a", "r">>
          [] k = "Function"  -> <<"f", "u", "n", "c", "t", "i", "o", "n">>
          [] k = "Print"     -> <<"p", "r", "i", "n", "t">>
          [] k = "Return"    -> <<"r", "e", "t", "u", "r", "n">>]

\* Words that stop short of a keyword, and words that run past one.
NearMisses ==
    {<<"a", "n">>, <<"f", "u", "n">>, <<"f", "o">>, <<"t", "h">>, <<"t", "r", "u">>,
     <<"c", "l", "a", "s", "s", "y">>, <<"n", "i", "l", "e">>}

\* The single characters a source is pieced together from.
PieceChars ==
    Comparison
        \cup {"(", ";", "/", " ", "\t", "\n", "\f", "1", "U+00B2", "%", "\\", "\"",
              "f", "t", "y", "U+00E9"}

Pieces ==
    {KeywordText[k] : k \in KeywordKinds} \cup NearMisses
        \cup {<<c>> : c \in PieceChars}

\* The characters of the sources that are enumerated character by character.
CoreChars == {"\"", "/", "\n", " ", "=", "y", "1", "\\"}

\* The inputs of the tests of scan.rs.
Test_empty ==
    <<>>

Test_single_character ==
    <<"(", ")", ",", ".", ";", "{", "}", "/", "-", "*", "+">>

Test_whitespace ==
    <<" ", "(", " ", ")", " ", ".", "\n", " ", " ", "*">>

Test_comparison ==
    <<"=", "=", "=", "!", "!", "=", "<", ">", "=", "=", "<", "=", ">">>

Test_number ==
    <<"1", "2", "3", " ", "(", "5", "3", "4", ")">>

Test_terminated_string ==
    <<" ", "\"", "(", ")", ")", ";", "3", ".", "=", "\"", "!", " ">>

Test_unterminated_string ==
    <<" ", "!", "\"", ")", "(", ";", "3", ".", "=">>

Test_unrecognized_character ==
    <<"\\", "%">>

Test_comment ==
    <<"/", "/", "a", "b", "c", "\n", "/", "/", "1", "%", "#", "\n", "3", "2">>

Test_identifier ==
    <<"t", "h", "e", "s", "e", " ", "a", "r", "e", " ", "a", "l", "l", " ",
      "i", "d", "e", "n", "t", "i", "f", "i", "e", "r", "s", ";">>

Test_keywords ==
    <<"a", "n", "d", " ", "o", "r", " ", "t", "r", "u", "e", " ", "f", "a",
      "l", "s", "e", " ", "i", "f", " ", "e", "l", "s", "e", " ", "f", "o",
      "r", " ", "w", "h", "i", "l", "e", " ", "c", "l", "a", "s", "s", " ",
      "n", "i", "l", " ", "s", "u", "p", "e", "r", " ", "t", "h", "i", "s",
      " ", "v", "a", "r", " ", "f", "u", "n", "c", "t", "i", "o", "n", " ",
      "p", "r", "i", "n", "t", " ", "r", "e", "t", "u", "r", "n">>

Test_identifier_or_keyword ==
    <<"f", "i", "d", "e", "n", "t", "i", "f", "i", "e", "r", " ", "t", "i",
      "d", "e", "n", "t", "i", "f", "i", "e", "r", " ", "u", "i", "d", "e",
      "n", "t", "i", "f", "i", "e", "r">>

TestSources ==
    {Test_empty,
     Test_single_character,
     Test_whitespace,
     Test_comparison,
     Test_number,
     Test_terminated_string,
     Test_unterminated_string,
     Test_unrecognized_character,
     Test_comment,
     Test_identifier,
     Test_keywords,
     Test_identifier_or_keyword}

RECURSIVE Flatten(_)
Flatten(ps) == IF ps = <<>> THEN <<>> ELSE Head(ps) \o Flatten(Tail(ps))

SeqsUpTo(S, n) == UNION {[1..k -> S] : k \in 0..n}

Sources ==
    {Flatten(ps) : ps \in SeqsUpTo(Pieces, MaxPieces)}
        \cup {Flatten(cs) : cs \in SeqsUpTo({<<c>> : c \in CoreChars}, MaxChars)}
        \cup TestSources

---------------------------------------------------------------------------
(* The state machine: one scan of one source, driven by next() calls.      *)

\* How many of the calls so far returned None.
NoneCount == Cardinality({n \in 1..Len(results) : results[n] = None})

\* let tokens = tokenize(source): the cursor is at the start, nothing was asked.
Init ==
    /\ source \in Sources
    /\ char_indices = peekable
    /\ results = <<>>
    /\ consumed = <<>>
    /\ other = None
    /\ instructions = None

\* What a next() call that ends with r leaves: its cursor, and its value noted.
Returns(r) ==
    /\ char_indices' = r.it
    /\ results' = Append(results, r.ret)
    /\ consumed' = Append(consumed, Consumed(r.it))

\* tokens.next()
next ==
    /\ NoneCount <= MaxNone
    /\ Returns(TokensNext(source, char_indices))
    /\ UNCHANGED <<source, other, instructions>>

Next == next

Spec == Init /\ [][Next]_vars

---------------------------------------------------------------------------
(* Two scans at once: tokenize called twice, next() calls in any order.    *)

\* The characters of the sources scanned side by side.
PairChars == {"\"", "=", "y", " "}

PairSources == {Flatten(cs) : cs \in SeqsUpTo({<<c>> : c \in PairChars}, MaxPairChars)}

\* let tokens = tokenize(source); let other = tokenize(other.source);
InitTwo ==
    /\ source \in PairSources
    /\ char_indices = peekable
    /\ results = <<>>
    /\ consumed = <<>>
    /\ other \in {[source |-> src, char_indices |-> peekable, results |-> <<>>] :
                     src \in PairSources}
    /\ instructions = None

\* Mutant: the cursor is one place that all scans share.
OtherCursor_Shared == char_indices

\* The second Tokens value has a cursor of its own.
OtherCursor == other.char_indices

\* What a next() call of the second scan that ends with r leaves.
OtherReturns(r) ==
    other' = [other EXCEPT !.char_indices = r.it,
                           !.results = Append(@, r.ret)]

\* other.next()
other_next ==
    /\ Cardinality({n \in DOMAIN other.results : other.results[n] = None})
           <= MaxNone
    /\ OtherReturns(TokensNext(other.source, OtherCursor))
    /\ UNCHANGED <<source, char_indices, results, consumed, instructions>>

NextTwo == next \/ other_next

SpecTwo == InitTwo /\ [][NextTwo]_vars

---------------------------------------------------------------------------
(* The parser stub over a scan: parse(tokenize(source)).collect().         *)

\* parse(tokenize(source)).collect::<Vec<Instruction>>() is called.
InitParse ==
    /\ source \in Sources
    /\ char_indices = peekable
    /\ results = <<>>
    /\ consumed = <<>>
    /\ other = None
    /\ instructions = [pc |-> "collecting", vec |-> <<>>]

\* Mutant: the unimplemented branch comes before the token is asked for.
InstructionsNext_TodoFirst(p, token) == [p EXCEPT !.pc = "todo"]

\* Instructions::next on what tokens.next() returned: None ends the
\* instructions (`?`), and collect() returns what it holds; a token reaches
\* todo!(), which panics.
InstructionsNext(p, token) ==
    IF token = None
    THEN [p EXCEPT !.pc = "collected"]
    ELSE [p EXCEPT !.pc = "todo"]

\* What a call of Instructions::next whose tokens.next() ends with r leaves.
InstructionsReturns(r) ==
    /\ Returns(r)
    /\ instructions' = InstructionsNext(instructions, r.ret)

\* One call of Instructions::next, made by flatten() for collect().
instructions_next ==
    /\ instructions.pc = "collecting"
    /\ InstructionsReturns(TokensNext(source, char_indices))
    /\ UNCHANGED <<source, other>>

NextParse == instructions_next

SpecParse == InitParse /\ [][NextParse]_vars

---------------------------------------------------------------------------
(* What the properties below read off a state.                             *)

\* The calls that returned a token.
Returned == {n \in DOMAIN results : results[n] # None}

\* Whether some call has returned None.
Exhausted == \E n \in DOMAIN results : results[n] = None

\* How many characters were behind the cursor when the n-th call was made.
Before(n) == IF n = 1 THEN 0 ELSE consumed[n - 1]

\* The index of the first non-whitespace character of src after index `from`,
\* or 0 when there is none.
RECURSIVE FirstNonBlank(_, _)
FirstNonBlank(src, from) ==
    IF from >= Len(src) THEN 0
    ELSE IF src[from + 1] \notin Blank THEN from + 1
    ELSE FirstNonBlank(src, from + 1)

\* The index of the character the n-th call starts its token at.
StartOf(n) == FirstNonBlank(source, Before(n))

\* The index of the character at byte offset `off` of src.
IndexOf(src, off) == CHOOSE k \in 1..(Len(src) + 1) : ByteOffset(src, k) = off

\* The index of the last character of the alphanumeric run of src that starts
\* at index k (k - 1 when the k-th character is not alphanumeric).
RECURSIVE RunEnd(_, _)
RunEnd(src, k) ==
    IF k > Len(src) \/ src[k] \notin (Letters \cup Digits)
    THEN k - 1
    ELSE RunEnd(src, k + 1)

\* The maximal alphanumeric run of src that starts at index k.
Word(src, k) == SubSeq(src, k, RunEnd(src, k))

\* Whether index k is in the span of the token of call n: from the token's
\* position through the last character consumed while producing it.
InSpan(k, n) ==
    /\ Before(n) < k
    /\ k <= consumed[n]
    /\ ByteOffset(source, k) >= results[n][1].position

---------------------------------------------------------------------------
(* The claims.                                                             *)

\* C1: the positions of the tokens returned by successive next() calls on
\* one scan are strictly increasing.
C1_PositionsStrictlyIncreasing ==
    \A m, n \in Returned :
        m < n => results[m][1].position < results[n][1].position

\* C1, witness: three tokens have been returned, one after a line break.
C1_Witness ==
    /\ Cardinality(Returned) >= 3
    /\ \E k \in 1..Len(source) : source[k] = "\n" /\ k <= consumed[Len(consumed)]

\* C2: once the scan is exhausted, every non-whitespace character of the
\* source (whitespace as char::is_whitespace has it) lies in the span of
\* exactly one token.
C2_Coverage ==
    Exhausted =>
        \A k \in 1..Len(source) :
            source[k] \notin Blank =>
                Cardinality({n \in Returned : InSpan(k, n)}) = 1

\* C2, witness: an exhausted scan that returned two tokens or more, one of
\* them longer than a character, over a source with whitespace in it.
C2_Witness ==
    /\ Exhausted
    /\ Cardinality(Returned) >= 2
    /\ \E n \in Returned : \E k \in 2..Len(source) : InSpan(k - 1, n) /\ InSpan(k, n)
    /\ \E k \in 1..Len(source) : source[k] \in Blank

\* C3: a call that returns a token moves the cursor on by a character at
\* least, so a source of n characters gives at most n tokens and the call
\* after them, the (n + 1)-th at the latest, returns None.
C3_ForwardProgress ==
    /\ \A n \in Returned : consumed[n] >= Before(n) + 1
    /\ Cardinality(Returned) <= Len(source)
    /\ Len(results) > Len(source) => results[Len(results)] = None

\* C3, witness: every character was a token of its own, and the call after
\* the last of them returned None.
C3_Witness ==
    /\ Len(source) >= 2
    /\ Cardinality(Returned) = Len(source)
    /\ Len(results) = Len(source) + 1
    /\ results[Len(results)] = None

\* C4: next() returns None exactly when no non-whitespace character is left
\* at or after the cursor, and after a None every later call returns None.
C4_ExhaustionIsTerminal ==
    /\ \A n \in DOMAIN results :
          (results[n] = None) <=>
              (\A k \in (Before(n) + 1)..Len(source) : source[k] \in Blank)
    /\ \A m, n \in DOMAIN results :
          (m < n /\ results[m] = None) => results[n] = None

\* C4, witness: a token, then trailing whitespace, then None more than once.
C4_Witness ==
    /\ Returned # {}
    /\ Len(source) >= 2
    /\ source[Len(source)] \in Blank
    /\ Cardinality(DOMAIN results \ Returned) >= 2

\* C5: a keyword token is returned only when the maximal alphanumeric run
\* at the token's position is exactly that keyword's text.
C5_KeywordSoundness ==
    \A n \in Returned :
        results[n][1].kind \in KeywordKinds =>
            Word(source, IndexOf(source, results[n][1].position))
                = KeywordText[results[n][1].kind]

\* C5, witness: a keyword token whose word is followed by another token.
C5_Witness ==
    \E n \in Returned :
        /\ results[n][1].kind \in KeywordKinds
        /\ n + 1 \in Returned
        /\ results[n + 1][1].position
              = results[n][1].position + Len(KeywordText[results[n][1].kind])

\* C6: a word the scanner starts a token at that is not exactly a keyword
\* is returned as one Identifier token, positioned at the word's first
\* character and consuming the whole alphanumeric run and no more, so the
\* next token starts after the run.
C6_KeywordIdentifierBoundary ==
    \A n \in Returned :
        LET s == StartOf(n)
            w == Word(source, s)
        IN  (/\ s # 0
             /\ source[s] \in Letters
             /\ \A k \in KeywordKinds : w # KeywordText[k])
            => /\ results[n][1].kind = "Identifier"
               /\ results[n][1].position = ByteOffset(source, s)
               /\ consumed[n] = s + Len(w) - 1
               /\ n + 1 \in Returned =>
                     results[n + 1][1].position >= ByteOffset(source, s + Len(w))

\* C6, witness: an Identifier that begins with a whole keyword and runs on
\* past it, followed by another token.
C6_Witness ==
    \E n \in Returned :
        /\ results[n][1].kind = "Identifier"
        /\ n + 1 \in Returned
        /\ \E k \in KeywordKinds :
              LET w == Word(source, StartOf(n))
              IN  /\ Len(w) > Len(KeywordText[k])
                  /\ SubSeq(w, 1, Len(KeywordText[k])) = KeywordText[k]

\* C7: when the word the scanner starts a token at is exactly the text of a
\* keyword, the token returned is at the word's first character, consumes
\* the word, and its kind is that keyword.
C7_KeywordCompleteness ==
    \A n \in Returned :
        LET s == StartOf(n)
            w == Word(source, s)
        IN  (s # 0 /\ source[s] \in Letters)
            => \A k \in KeywordKinds :
                  w = KeywordText[k]
                  => /\ results[n][1].kind = k
                     /\ results[n][1].position = ByteOffset(source, s)
                     /\ consumed[n] = s + Len(w) - 1

\* C7, witness: the scan of the keywords test has returned sixteen tokens,
\* one of each keyword kind.
C7_Witness ==
    /\ source = Test_keywords
    /\ Cardinality(Returned) = 16
    /\ \A k \in KeywordKinds : \E n \in Returned : results[n][1].kind = k

\* The kinds of the comparison operators, alone and followed by "=".
SingleKind(c) ==
    CASE c = "=" -> "Equal"
      [] c = ">" -> "Greater"
      [] c = "<" -> "Less"
      [] c = "!" -> "Bang"

DoubledKind(c) ==
    CASE c = "=" -> "EqualEqual"
      [] c = ">" -> "GreaterEqual"
      [] c = "<" -> "LessEqual"
      [] c = "!" -> "BangEqual"

\* C8: a token that starts with one of = > < ! consumes the next character
\* too when that is "=", and is the doubled kind; otherwise it consumes the
\* one character, leaves the next for the following token, and is the
\* single kind.
C8_ComparisonMaximalMunch ==
    \A n \in Returned :
        LET s == StartOf(n)
        IN  (s # 0 /\ source[s] \in Comparison)
            => /\ results[n][1].position = ByteOffset(source, s)
               /\ IF s < Len(source) /\ source[s + 1] = "="
                  THEN /\ results[n][1].kind = DoubledKind(source[s])
                       /\ consumed[n] = s + 1
                  ELSE /\ results[n][1].kind = SingleKind(source[s])
                       /\ consumed[n] = s

\* C8, witness: "===" gave EqualEqual and then Equal, two bytes further.
C8_Witness ==
    \E n \in Returned :
        /\ n + 1 \in Returned
        /\ results[n][1].kind = "EqualEqual"
        /\ results[n + 1][1].kind = "Equal"
        /\ results[n + 1][1].position = results[n][1].position + 2

\* C9: a token that starts at a double quote with no double quote after it
\* is an Error token at that quote; it consumes all the input left, and
\* every later call returns None.
C9_UnterminatedString ==
    \A n \in Returned :
        LET s == StartOf(n)
        IN  (/\ s # 0
             /\ source[s] = "\""
             /\ \A k \in (s + 1)..Len(source) : source[k] # "\"")
            => /\ results[n][1].kind = "Error"
               /\ results[n][1].position = ByteOffset(source, s)
               /\ consumed[n] = Len(source)
               /\ \A m \in DOMAIN results : m > n => results[m] = None

\* C9, witness: after an earlier token, an opening quote with two more
\* characters or more behind it gave Error, and the next call None.
C9_Witness ==
    \E n \in Returned :
        /\ n >= 2
        /\ results[n][1].kind = "Error"
        /\ source[StartOf(n)] = "\""
        /\ Len(source) >= StartOf(n) + 2
        /\ n + 1 \in DOMAIN results
        /\ results[n + 1] = None

\* The characters no rule of Tokens::kind classifies.
NoRule ==
    Char \ (Punctuation \cup Comparison \cup {"\""} \cup Digits \cup Letters
                \cup Blank)

\* C10: a token that starts at a character no rule classifies is an Error
\* token at that character and consumes it alone; a character that follows
\* it directly starts the next token.
C10_UnrecognizedCharacter ==
    \A n \in Returned :
        LET s == StartOf(n)
        IN  (s # 0 /\ source[s] \in NoRule)
            => /\ results[n][1].kind = "Error"
               /\ results[n][1].position = ByteOffset(source, s)
               /\ consumed[n] = s
               /\ (/\ s < Len(source)
                   /\ source[s + 1] \notin Blank
                   /\ n + 1 \in DOMAIN results)
                  => /\ n + 1 \in Returned
                     /\ results[n + 1][1].position = ByteOffset(source, s + 1)

\* C10, witness: two unrecognized characters in a row gave two Error
\* tokens, one byte apart.
C10_Witness ==
    \E n \in Returned :
        /\ n + 1 \in Returned
        /\ source[StartOf(n)] \in NoRule
        /\ source[StartOf(n) + 1] \in NoRule
        /\ results[n][1].kind = "Error"
        /\ results[n + 1][1].kind = "Error"
        /\ results[n + 1][1].position = results[n][1].position + 1

\* The index of the first occurrence of character c in src after index
\* `from`, or Len(src) + 1 when there is none.
RECURSIVE FirstAfter(_, _, _)
FirstAfter(src, from, c) ==
    IF from >= Len(src) THEN Len(src) + 1
    ELSE IF src[from + 1] = c THEN from + 1
    ELSE FirstAfter(src, from + 1, c)

\* C11: a token that starts at a double quote with a double quote after it
\* is a String token at the opening quote; it consumes everything through
\* the first double quote that follows, whatever stands before that quote,
\* and the next token starts at the first non-whitespace character after it.
C11_TerminatedString ==
    \A n \in Returned :
        LET s == StartOf(n)
            q == FirstAfter(source, s, "\"")
        IN  (s # 0 /\ source[s] = "\"" /\ q <= Len(source))
            => /\ results[n][1].kind = "String"
               /\ results[n][1].position = ByteOffset(source, s)
               /\ consumed[n] = q
               /\ n + 1 \in Returned =>
                     results[n + 1][1].position
                         = ByteOffset(source, FirstNonBlank(source, q))

\* C11, witness: a String whose literal holds a backslash, or punctuation, a
\* digit and more, was returned, and the token right after its closing quote.
C11_Witness ==
    \E n \in Returned :
        LET s == StartOf(n)
            q == FirstAfter(source, s, "\"")
        IN  /\ results[n][1].kind = "String"
            /\ q >= s + 2
            /\ n + 1 \in Returned
            /\ results[n + 1][1].position = ByteOffset(source, q + 1)

\* C12: a token that starts at a slash followed directly by a slash is a
\* Comment token at the first slash; it consumes everything up to, not
\* including, the next newline, or to the end of input.  A slash followed by
\* anything else is a Slash token and consumes the slash alone.
C12_Comments ==
    \A n \in Returned :
        LET s == StartOf(n)
        IN  (s # 0 /\ source[s] = "/")
            => /\ results[n][1].position = ByteOffset(source, s)
               /\ IF s < Len(source) /\ source[s + 1] = "/"
                  THEN /\ results[n][1].kind = "Comment"
                       /\ consumed[n] = FirstAfter(source, s + 1, "\n") - 1
                  ELSE /\ results[n][1].kind = "Slash"
                       /\ consumed[n] = s

\* C12, witness: a Comment with text in it ended before a newline, and the
\* token of the next line was returned.
C12_Witness ==
    \E n \in Returned :
        LET s == StartOf(n)
        IN  /\ results[n][1].kind = "Comment"
            /\ consumed[n] >= s + 2
            /\ consumed[n] < Len(source)
            /\ source[consumed[n] + 1] = "\n"
            /\ n + 1 \in Returned

\* The characters '0'..'9' among the numeric characters of the alphabet.
AsciiDigits == {c \in Numeric : len_utf8(c) = 1}

\* The index of the last character of the run of characters of D in src that
\* starts at index k (k - 1 when the k-th character is not in D).
RECURSIVE RunEndIn(_, _, _)
RunEndIn(src, k, D) ==
    IF k > Len(src) \/ src[k] \notin D
    THEN k - 1
    ELSE RunEndIn(src, k + 1, D)

\* C13, as stated: a token is a Number exactly when it starts at an ASCII
\* digit; it is positioned at that digit and consumes the maximal run of
\* ASCII digits and nothing else.
C13_NumberAsciiDigits ==
    \A n \in Returned :
        LET s == StartOf(n)
        IN  /\ results[n][1].kind = "Number" <=> source[s] \in AsciiDigits
            /\ results[n][1].kind = "Number"
                  => /\ results[n][1].position = ByteOffset(source, s)
                     /\ consumed[n] = RunEndIn(source, s, AsciiDigits)

\* C13, amended: a token is a Number exactly when it starts at a numeric
\* character (char::is_numeric: the ASCII digits and the other numeric
\* characters of Unicode, such as U+00B2); it is positioned at that character
\* and consumes the maximal run of numeric characters and nothing else.
C13_NumberLiterals ==
    \A n \in Returned :
        LET s == StartOf(n)
        IN  /\ results[n][1].kind = "Number" <=> source[s] \in Numeric
            /\ results[n][1].kind = "Number"
                  => /\ results[n][1].position = ByteOffset(source, s)
                     /\ consumed[n] = RunEndIn(source, s, Numeric)

\* C13, witness: a Number of several digits was returned and the character
\* right after the digits started the next token.
C13_Witness ==
    \E n \in Returned :
        /\ results[n][1].kind = "Number"
        /\ consumed[n] >= StartOf(n) + 1
        /\ n + 1 \in Returned
        /\ StartOf(n + 1) = consumed[n] + 1

\* Space, tab, newline and carriage return, among the characters that
\* char::is_whitespace accepts.
FourBlanks == Blank \ {"\f"}

\* How many characters are behind the cursor now.
ConsumedSoFar == IF results = <<>> THEN 0 ELSE consumed[Len(results)]

\* The characters that call n consumed and that are not part of its token:
\* all it consumed when it returned None, else those before the position.
SkippedBy(n) ==
    {k \in (Before(n) + 1)..consumed[n] :
        results[n] # None => ByteOffset(source, k) < results[n][1].position}

\* src without its leading whitespace.
TrimStart(src) ==
    LET k == FirstNonBlank(src, 0)
    IN  IF k = 0 THEN <<>> ELSE SubSeq(src, k, Len(src))

\* The tokens ts, each with its position advanced by `by`.
Shift(ts, by) ==
    [n \in DOMAIN ts |-> Token(ts[n].position + by, ts[n].kind)]

\* C14, as stated: space, tab, newline and carriage return are the only
\* characters consumed without being part of a token.
C14_FourSkipped ==
    \A n \in DOMAIN results :
        \A k \in SkippedBy(n) : source[k] \in FourBlanks

\* C14, amended: next() skips every run of whitespace, which is what
\* char::is_whitespace accepts (space, tab, newline, carriage return, and
\* form feed among others): no token starts at a whitespace character,
\* whitespace is all that is consumed without being part of a token, and
\* the whitespace a source starts with changes its tokens only by advancing
\* their positions.
C14_WhitespaceSkipping ==
    /\ \A n \in Returned :
          results[n][1].position = ByteOffset(source, StartOf(n))
    /\ \A n \in DOMAIN results :
          \A k \in SkippedBy(n) : source[k] \in Blank
    /\ (source # <<>> /\ source[1] \in Blank /\ results # <<>>)
          => \A rest \in {TrimStart(source)} :
                \A alone \in {Shift(tokenize(rest), Len(source) - Len(rest))} :
                   \A n \in DOMAIN results :
                      IF n \in Returned
                      THEN n <= Len(alone) /\ results[n][1] = alone[n]
                      ELSE n > Len(alone)

\* C14, witness: a source that starts with whitespace had a form feed skipped
\* before a token.
C14_Witness ==
    /\ source # <<>>
    /\ source[1] \in Blank
    /\ \E n \in Returned :
          \E k \in (Before(n) + 1)..(StartOf(n) - 1) :
              source[k] \notin FourBlanks

\* C18: a token's position is the byte offset of the first non-whitespace
\* character at or after the cursor, which is the first character consumed
\* for it: a valid offset into the source, of a character that is not
\* whitespace; the opening quote of a string, the first slash of a comment,
\* the first letter of an identifier or keyword, the first digit of a number,
\* and for an Error the character that has no rule or the quote left open.
C18_PositionAssignment ==
    \A n \in Returned :
        LET s == StartOf(n)
            t == results[n][1]
        IN  /\ s > Before(n)
            /\ s <= consumed[n]
            /\ t.position = ByteOffset(source, s)
            /\ t.position < ByteOffset(source, Len(source) + 1)
            /\ ~is_whitespace(source[s])
            /\ t.kind = "String" => source[s] = "\""
            /\ t.kind = "Comment" => source[s] = "/"
            /\ t.kind \in KeywordKinds \cup {"Identifier"}
                  => is_alphabetic(source[s])
            /\ t.kind = "Number" => is_numeric(source[s])
            /\ t.kind = "Error" => source[s] \in NoRule \cup {"\""}

\* C18, witness: after an earlier token, a token was returned that has
\* several whitespace characters before it, so that its position is not the
\* cursor's.
C18_Witness ==
    \E n \in Returned :
        /\ n > 1
        /\ StartOf(n) > Before(n) + 2
        /\ results[n][1].position = ByteOffset(source, StartOf(n))

\* C20: where a run of digits is directly followed by a letter, the digits
\* are one Number token and the word that follows is classified on its own:
\* a keyword token when the word is a keyword's text, an Identifier
\* otherwise, positioned right after the digits; neither is an Error.
C20_NumberThenWord ==
    \A n \in Returned :
        LET s == StartOf(n)
            e == RunEndIn(source, s, Numeric)
        IN  (is_numeric(source[s]) /\ e < Len(source)
                /\ is_alphabetic(source[e + 1]))
            => /\ results[n][1].kind = "Number"
               /\ consumed[n] = e
               /\ n + 1 \in DOMAIN results
                     => LET w == Word(source, e + 1)
                        IN  /\ n + 1 \in Returned
                            /\ results[n + 1][1].position
                                   = ByteOffset(source, e + 1)
                            /\ consumed[n + 1] = e + Len(w)
                            /\ results[n + 1][1].kind =
                                   IF \E k \in KeywordKinds : KeywordText[k] = w
                                   THEN CHOOSE k \in KeywordKinds :
                                            KeywordText[k] = w
                                   ELSE "Identifier"

\* C20, witness: a Number was returned and, right after its digits, a
\* keyword.
C20_Witness ==
    \E n \in Returned :
        /\ results[n][1].kind = "Number"
        /\ n + 1 \in Returned
        /\ results[n + 1][1].kind \in KeywordKinds
        /\ StartOf(n + 1) = consumed[n] + 1

\* The part of src that is not yet consumed when k characters are.
Suffix(src, k) == SubSeq(src, k + 1, Len(src))

\* C19: after every call of next(), with the cursor at offset p, the tokens
\* the scan goes on to return are those of a fresh scan of the suffix of the
\* source that starts at p, each position increased by p.
C19_Memoryless ==
    results # <<>>
        => Collect(source, char_indices)
               = Shift(tokenize(Suffix(source, ConsumedSoFar)),
                       ByteOffset(source, ConsumedSoFar + 1))

\* C19, witness: a call returned with the character after its token held in
\* the lookahead and behind a character of two bytes, and tokens remain.
C19_Witness ==
    /\ results # <<>>
    /\ char_indices.peeked # None
    /\ ByteOffset(source, ConsumedSoFar + 1) > ConsumedSoFar
    /\ Collect(source, char_indices) # <<>>

\* What the n-th call of next() returns in a scan of src made alone.
AloneAt(src, n) ==
    LET ts == tokenize(src)
    IN  IF n <= Len(ts) THEN Some(ts[n]) ELSE None

\* C15: with two scans under way and their next() calls made in any order,
\* every call of either scan returns what the same call returns when that
\* scan runs alone.
C15_NoInterference ==
    /\ other # None
    /\ \A n \in DOMAIN results : results[n] = AloneAt(source, n)
    /\ \A n \in DOMAIN other.results :
          other.results[n] = AloneAt(other.source, n)

\* C15, witness: two scans of different sources have each returned a token
\* and neither has ended.
C15_Witness ==
    /\ other # None
    /\ source # other.source
    /\ results # <<>>
    /\ other.results # <<>>
    /\ ~Exhausted
    /\ \A n \in DOMAIN other.results : other.results[n] # None

C17_EmptyParse ==
    (instructions # None
        /\ instructions.pc # "collecting"
        /\ FirstNonBlank(source, 0) = 0)
        => /\ instructions.pc = "collected"
           /\ instructions.vec = <<>>

\* C17, witness: the instructions of the empty source were collected.
C17_Witness ==
    /\ source = <<>>
    /\ instructions # None
    /\ instructions.pc = "collected"

=============================================================================
